---- MODULE Spec2Model ----
(***************************************************************************)
(* CountersTable (python/src/counters_table.rs): named i64 counters kept    *)
(* as entries of a versioned key-value Table.  get_value and increment run  *)
(* a closure under retry_async with the default RetryWithBackoff policy;    *)
(* increment reads (value, version) and writes value + increment_value      *)
(* conditionally on that version.  init_counter is one unconditional        *)
(* insert.  Several client threads call the table concurrently; every       *)
(* Table call is one atomic step at the store.                              *)
(***************************************************************************)
EXTENDS Integers, Sequences, FiniteSets, TLC

\* ------------------------------------------------------------------ bounds
\* Width in bits of the counter integer (i64 in the source, scaled down).
IntBits == 5
\* Attempt ceiling of the retry policy (number of invocations of the closure).
MaxAttempts == 2
\* Calls the client threads make in all.
MaxCalls == 3

Callers == {"t1", "t2"}
Keys == {"c"}

MinInt == -(2 ^ (IntBits - 1))
MaxInt == (2 ^ (IntBits - 1)) - 1
InRange(x) == MinInt <= x /\ x <= MaxInt
\* Two's complement wrap-around of a mathematical integer to the width.
Wrap(x) == ((x - MinInt) % (2 ^ IntBits)) + MinInt

\* Arguments the callers pass.
InitValues == {10, MaxInt}
Deltas == {1, MinInt}

\* Store-level failures other than a version mismatch.
FaultKinds == {"ConnectionError"}

VARIABLES
    overflow_checks, \* build profile: TRUE = arithmetic overflow panics, FALSE = wraps
    table,           \* the Table: key -> NoEntry or [value, version]
    pc,              \* caller -> "idle" | "get" | "insert" | "done"
    call,            \* caller -> the pymethod call in progress or last returned
    inc,             \* caller -> increment_value handed to impl_increment_async
    attempt,         \* caller -> current try of retry_async (1-based)
    pending,         \* caller -> (new_value, version) of the insert_conditionally about to be issued
    result,          \* caller -> what the last call returned
    calls,           \* number of calls made so far, by all threads
    trace,           \* history: caller -> store calls of the current call with their answers
    hist             \* history: key -> the last init_counter's value and the increments since

vars == <<overflow_checks, table, pc, call, inc, attempt, pending, result, calls, trace, hist>>

\* ------------------------------------------------------------------ values
NoEntry == [tag |-> "NoEntry"]
Entry(v, ver) == [tag |-> "Entry", value |-> v, version |-> ver]

NoCall == [op |-> "none", key |-> "-", arg |-> 0]
NoResult == [tag |-> "None"]
NoPending == [value |-> 0, version |-> 0]

\* History of a key: init is the value the last init_counter wrote, commits
\* the number of increments committed since, sum the init value plus their
\* deltas as a mathematical integer, allok whether every increment that
\* returned since returned Ok.
NoHistory == [init |-> 0, commits |-> 0, sum |-> 0, allok |-> TRUE]
History(v) == [init |-> v, commits |-> 0, sum |-> v, allok |-> TRUE]

\* Result<Option<(i64, Version)>, TableError> of Table::get
OkSome(v, ver) == [tag |-> "OkSome", value |-> v, version |-> ver]
OkNone == [tag |-> "OkNone"]
TableErr(kind) == [tag |-> "Err", kind |-> kind]
\* Result<Version, TableError> of Table::insert / insert_conditionally
InsertOk == [tag |-> "Ok"]
\* Ok(()) of a call that returns no value
OkUnit == [tag |-> "Ok"]

\* TableError values
TableError(kind) == [kind |-> kind]
KeyDoesNotExist(operation, error_msg) ==
    [kind |-> "KeyDoesNotExist", operation |-> operation, error_msg |-> error_msg]

\* RetryResult of a closure run, plus the two ways a run of the increment
\* closure can leave the state machine early: suspended at the await of
\* insert_conditionally, or unwinding from an arithmetic overflow.
Success(v) == [tag |-> "Success", val |-> v]
Retry(e) == [tag |-> "Retry", error |-> e]
Fail(e) == [tag |-> "Fail", error |-> e]
AwaitInsert(v, ver) == [tag |-> "AwaitInsert", value |-> v, version |-> ver]
Unwind == [tag |-> "Panic"]

Ok(v) == [tag |-> "Ok", val |-> v]
Err(e) == [tag |-> "Err", error |-> e]
Panicked(msg) == [tag |-> "Panic", msg |-> msg]

\* -------------------------------------------------------------- arithmetic
\* An i64 operation whose mathematical result is x: in range it is x; out of
\* range the build decides, a panic with overflow checks and the wrapped
\* value without them.
Checked(x) ==
    IF InRange(x) THEN [panic |-> FALSE, val |-> x]
    ELSE IF overflow_checks THEN [panic |-> TRUE, val |-> 0]
    ELSE [panic |-> FALSE, val |-> Wrap(x)]

\* let new_value = value + increment_value;
new_value(value, increment_value) == Checked(value + increment_value)

\* -decrement_value
negated(decrement_value) == Checked(0 - decrement_value)

\* ------------------------------------------------------------------- Table
\* The versioned key-value store.  Every successful write gives the key a
\* version it never had before.
NextVersion(e) == IF e = NoEntry THEN 0 ELSE e.version + 1

\* Table::get
Table_get(t, key) ==
    IF t[key] = NoEntry THEN OkNone ELSE OkSome(t[key].value, t[key].version)

\* Table::insert: unconditional write.
Table_insert(t, key, value) ==
    [table |-> [t EXCEPT ![key] = Entry(value, NextVersion(t[key]))], res |-> InsertOk]

\* Table::insert_conditionally: compare-and-swap on the key's version.
Table_insert_conditionally(t, key, value, version) ==
    IF t[key] # NoEntry /\ t[key].version = version
    THEN [table |-> [t EXCEPT ![key] = Entry(value, NextVersion(t[key]))], res |-> InsertOk]
    ELSE IF t[key] = NoEntry
    THEN [table |-> t, res |-> TableErr("KeyDoesNotExist")]
    ELSE [table |-> t, res |-> TableErr("IncorrectKeyVersion")]

\* What the store may answer to a get: the entry, or a failure.
GetReplies(t, key, faults) == {Table_get(t, key)} \cup {TableErr(k) : k \in faults}

\* A write that fails with a store error has not been applied.
Failed(t, faults) == {[table |-> t, res |-> TableErr(k)] : k \in faults}

\* A write the store applied (w is its outcome) and whose answer never
\* reached the client: the client is told of a store error.
LostReply(w, faults) ==
    IF w.res.tag = "Ok" THEN {[table |-> w.table, res |-> TableErr(k)] : k \in faults} ELSE {}

\* ---------------------------------------------------------- retry policy
RetryWithBackoff_default == [max_attempt |-> MaxAttempts, backoff_coefficient |-> 1]

\* Mutant: the policy is built without an attempt ceiling that can be reached.
get_default_retry_policy_unbounded ==
    [RetryWithBackoff_default EXCEPT !.backoff_coefficient = 2, !.max_attempt = 2 * MaxAttempts]

get_default_retry_policy == [RetryWithBackoff_default EXCEPT !.backoff_coefficient = 2]

\* One turn of retry_async's loop after the closure's try number `tries`
\* ended with `out`: return the success value, or propagate a Fail at once,
\* or after a Retry go round again, or, with the policy exhausted, return
\* the error of this last try.
retry_async(policy, tries, out) ==
    IF out.tag = "Success" THEN [again |-> FALSE, res |-> Ok(out.val)]
    ELSE IF out.tag = "Retry" /\ tries < policy.max_attempt THEN [again |-> TRUE, res |-> NoResult]
    ELSE [again |-> FALSE, res |-> Err([error |-> out.error, tries |-> tries])]

\* ---------------------------------------------------------------- closures
does_not_exist(key) == <<"Key", key, "does not exist">>

\* Mutant: a missing key is taken for a failure to retry.
get_value_closure_retries_absent(key, r) ==
    CASE r.tag = "OkSome" -> Success(Ok(r.value))
      [] r.tag = "OkNone" -> Retry(TableError("KeyDoesNotExist"))
      [] r.tag = "Err" -> Retry(TableError(r.kind))

\* Mutant: a store error of the read ends the call at once.
get_value_closure_surfaces_error(key, r) ==
    CASE r.tag = "OkSome" -> Success(Ok(r.value))
      [] r.tag = "OkNone" -> Success(Err(does_not_exist(key)))
      [] r.tag = "Err" -> Fail(TableError(r.kind))

\* Mutant: the pair read is taken apart the wrong way round.
get_value_closure_returns_version(key, r) ==
    CASE r.tag = "OkSome" -> Success(Ok(r.version))
      [] r.tag = "OkNone" -> Success(Err(does_not_exist(key)))
      [] r.tag = "Err" -> Retry(TableError(r.kind))

\* The closure of impl_get_value_async, on the answer r of table.get.
get_value_closure(key, r) ==
    CASE r.tag = "OkSome" -> Success(Ok(r.value))
      [] r.tag = "OkNone" -> Success(Err(does_not_exist(key)))
      [] r.tag = "Err" -> Retry(TableError(r.kind))

\* Mutant: a missing key is created with the delta as its first value.
increment_closure_creates_absent(key, increment_value, r) ==
    CASE r.tag = "OkSome" ->
            LET s == new_value(r.value, increment_value)
            IN  IF s.panic THEN Unwind ELSE AwaitInsert(s.val, r.version)
      [] r.tag = "OkNone" -> AwaitInsert(increment_value, 0)
      [] r.tag = "Err" -> Retry(TableError(r.kind))

\* Mutant: the conditional write is given the key's first version, not the
\* version read.
increment_closure_first_version(key, increment_value, r) ==
    CASE r.tag = "OkSome" ->
            LET s == new_value(r.value, increment_value)
            IN  IF s.panic THEN Unwind ELSE AwaitInsert(s.val, 0)
      [] r.tag = "OkNone" -> Success(Err(does_not_exist(key)))
      [] r.tag = "Err" -> Retry(TableError(r.kind))

\* The closure of impl_increment_async, on the answer r of table.get, up to
\* the await of insert_conditionally.
increment_closure(key, increment_value, r) ==
    CASE r.tag = "OkSome" ->
            LET s == new_value(r.value, increment_value)
            IN  IF s.panic THEN Unwind ELSE AwaitInsert(s.val, r.version)
      [] r.tag = "OkNone" -> Success(Err(does_not_exist(key)))
      [] r.tag = "Err" -> Retry(TableError(r.kind))

\* Mutant: the new value is written without the version precondition.
increment_insert_unconditional(t, key, value, version) == Table_insert(t, key, value)

\* self.table.insert_conditionally(&key, &new_value, version, -1)
increment_insert(t, key, value, version) == Table_insert_conditionally(t, key, value, version)

\* Mutant: the counter is put empty, whatever init_value is.
init_counter_insert_empty(t, key, init_value) == Table_insert(t, key, 0)

\* Mutant: the counter is written on condition that the key is at its first version.
init_counter_insert_conditional(t, key, init_value) ==
    Table_insert_conditionally(t, key, init_value, 0)

\* self.table.insert(&key.to_string(), &init_value, -1)
init_counter_insert(t, key, init_value) == Table_insert(t, key, init_value)

\* Mutant: a failed conditional write ends the call instead of being retried.
insert_res_fails(res) ==
    IF res.tag = "Ok" THEN Success(OkUnit) ELSE Fail(TableError(res.kind))

\* match insert_res
insert_res(res) ==
    IF res.tag = "Ok" THEN Success(OkUnit) ELSE Retry(TableError(res.kind))

\* Mutant: exhaustion is reported as an error of its own.
map_err_exhausted(nested) ==
    IF nested.tag = "Err" THEN Err(TableError("OperationError")) ELSE nested

\* .map_err(|e| e.error)
map_err(nested) == IF nested.tag = "Err" THEN Err(nested.error.error) ELSE nested

\* match nested_result of impl_get_value_async
impl_get_value_result(key, nested) ==
    CASE nested.tag = "Ok" /\ nested.val.tag = "Ok" -> Ok(nested.val.val)
      [] nested.tag = "Ok" /\ nested.val.tag = "Err" ->
            Err(KeyDoesNotExist(<<"Get value for key", key>>, nested.val.error))
      [] nested.tag = "Err" -> Err(nested.error)

\* match nested_res of impl_increment_async
impl_increment_result(key, nested) ==
    CASE nested.tag = "Ok" /\ nested.val.tag = "Ok" -> OkUnit
      [] nested.tag = "Ok" /\ nested.val.tag = "Err" ->
            Err(KeyDoesNotExist(<<"Get value for key", key>>, nested.val.error))
      [] nested.tag = "Err" -> Err(nested.error)

\* exceptions::PyOSError::new_err(format!("Error while attempting to acquire segment {:?}", e))
PyOSError(e) == [exc |-> "OSError", text |-> "Error while attempting to acquire segment", debug |-> e]

\* match increment_result / match value_result of the pymethods
py_result(res) == IF res.tag = "Ok" THEN res ELSE Err(PyOSError(res.error))

\* ------------------------------------------------------------------ state
Init ==
    /\ overflow_checks \in BOOLEAN
    /\ table = [k \in Keys |-> NoEntry]
    /\ pc = [c \in Callers |-> "idle"]
    /\ call = [c \in Callers |-> NoCall]
    /\ inc = [c \in Callers |-> 0]
    /\ attempt = [c \in Callers |-> 0]
    /\ pending = [c \in Callers |-> NoPending]
    /\ result = [c \in Callers |-> NoResult]
    /\ calls = 0
    /\ trace = [c \in Callers |-> <<>>]
    /\ hist = [k \in Keys |-> NoHistory]

IsIncrement(c) == call[c].op \in {"increment", "decrement"}

\* A thread is between calls and may make another one.
CanCall(c) == pc[c] \in {"idle", "done"} /\ calls < MaxCalls

\* A store call of the trace: what was called, what the store answered, and
\* whether the store applied a write.
Event(op, res) == [op |-> op, res |-> res, applied |-> (op = "insert" /\ res = "Ok")]
ReplyTag(res) == IF res.tag = "Err" THEN res.kind ELSE res.tag
\* The event of a write answered with reply when the store held t.
WriteEvent(t, reply) ==
    [op |-> "insert", res |-> ReplyTag(reply.res), applied |-> (reply.table # t)]

\* The call of thread c returns r.
Return(c, r) ==
    /\ pc' = [pc EXCEPT ![c] = "done"]
    /\ result' = [result EXCEPT ![c] = r]
    /\ pending' = [pending EXCEPT ![c] = NoPending]
    /\ UNCHANGED attempt

\* The closure's run ended with out (Success or Retry): retry_async loops or
\* returns, and the call's epilogue turns what it returns into the result.
Settle(c, out) ==
    LET step == retry_async(get_default_retry_policy, attempt[c], out)
        nested == map_err(step.res)
        res == IF call[c].op = "get_value"
               THEN impl_get_value_result(call[c].key, nested)
               ELSE impl_increment_result(call[c].key, nested)
    IN  IF step.again
        THEN /\ attempt' = [attempt EXCEPT ![c] = attempt[c] + 1]
             /\ pc' = [pc EXCEPT ![c] = "get"]
             /\ pending' = [pending EXCEPT ![c] = NoPending]
             /\ UNCHANGED result
        ELSE Return(c, py_result(res))

\* An increment on key returned r: history of whether all of them succeeded.
Note(key, committed, delta, returned, r) ==
    hist' = [hist EXCEPT ![key] =
                [init |-> @.init,
                 commits |-> IF committed THEN @.commits + 1 ELSE @.commits,
                 sum |-> IF committed THEN @.sum + delta ELSE @.sum,
                 allok |-> IF returned THEN @.allok /\ r.tag = "Ok" ELSE @.allok]]

StartCall(c, op, key, arg) ==
    /\ call' = [call EXCEPT ![c] = [op |-> op, key |-> key, arg |-> arg]]
    /\ calls' = calls + 1

\* ---------------------------------------------------------------- actions
\* init_counter(key, init_value): one unconditional insert; a store failure
\* hits the expect and the call panics.
init_counter_answered(c, key, init_value, replies) ==
    /\ CanCall(c)
    /\ \E reply \in replies :
        /\ table' = reply.table
        /\ StartCall(c, "init_counter", key, init_value)
        /\ trace' = [trace EXCEPT ![c] = <<WriteEvent(table, reply)>>]
        /\ IF reply.res.tag = "Ok"
           THEN Return(c, OkUnit)
           ELSE Return(c, Panicked(<<"Failed to put empty counter", TableError(reply.res.kind)>>))
        /\ IF reply.table # table
           THEN hist' = [hist EXCEPT ![key] = History(init_value)]
           ELSE UNCHANGED hist
    /\ inc' = [inc EXCEPT ![c] = 0]
    /\ UNCHANGED overflow_checks

init_counter(c, key, init_value, faults) ==
    init_counter_answered(c, key, init_value,
        {init_counter_insert(table, key, init_value)} \cup Failed(table, faults))

\* The same call when the store applies the write and the answer is lost.
init_counter_reply_lost(c, key, init_value, faults) ==
    init_counter_answered(c, key, init_value,
        LostReply(init_counter_insert(table, key, init_value), faults))

\* increment(key, increment_value) is called: impl_increment_async starts
\* its first try.
increment(c, key, increment_value) ==
    /\ CanCall(c)
    /\ StartCall(c, "increment", key, increment_value)
    /\ trace' = [trace EXCEPT ![c] = <<>>]
    /\ inc' = [inc EXCEPT ![c] = increment_value]
    /\ attempt' = [attempt EXCEPT ![c] = 1]
    /\ pc' = [pc EXCEPT ![c] = "get"]
    /\ result' = [result EXCEPT ![c] = NoResult]
    /\ UNCHANGED <<overflow_checks, table, pending, hist>>

\* decrement(key, decrement_value) is called: increment(key, -decrement_value).
decrement(c, key, decrement_value) ==
    /\ CanCall(c)
    /\ StartCall(c, "decrement", key, decrement_value)
    /\ trace' = [trace EXCEPT ![c] = <<>>]
    /\ LET n == negated(decrement_value)
       IN  IF n.panic
           THEN /\ Return(c, Panicked("attempt to negate with overflow"))
                /\ inc' = [inc EXCEPT ![c] = 0]
           ELSE /\ inc' = [inc EXCEPT ![c] = n.val]
                /\ attempt' = [attempt EXCEPT ![c] = 1]
                /\ pc' = [pc EXCEPT ![c] = "get"]
                /\ result' = [result EXCEPT ![c] = NoResult]
                /\ UNCHANGED pending
    /\ UNCHANGED <<overflow_checks, table, hist>>

\* get_value(key) is called: impl_get_value_async starts its first try.
get_value(c, key) ==
    /\ CanCall(c)
    /\ StartCall(c, "get_value", key, 0)
    /\ trace' = [trace EXCEPT ![c] = <<>>]
    /\ inc' = [inc EXCEPT ![c] = 0]
    /\ attempt' = [attempt EXCEPT ![c] = 1]
    /\ pc' = [pc EXCEPT ![c] = "get"]
    /\ result' = [result EXCEPT ![c] = NoResult]
    /\ UNCHANGED <<overflow_checks, table, pending, hist>>

\* One try's table.get and what the closure does with the answer, up to its
\* next await.
attempt_get(c, faults) ==
    /\ pc[c] = "get"
    /\ \E r \in GetReplies(table, call[c].key, faults) :
        LET out == IF call[c].op = "get_value"
                   THEN get_value_closure(call[c].key, r)
                   ELSE increment_closure(call[c].key, inc[c], r)
        IN  /\ trace' = [trace EXCEPT ![c] = Append(trace[c], Event("get", ReplyTag(r)))]
            /\ CASE out.tag = "AwaitInsert" ->
                      /\ pc' = [pc EXCEPT ![c] = "insert"]
                      /\ pending' = [pending EXCEPT ![c] = [value |-> out.value, version |-> out.version]]
                      /\ UNCHANGED <<attempt, result>>
                 [] out.tag = "Panic" ->
                      Return(c, Panicked("attempt to add with overflow"))
                 [] OTHER -> Settle(c, out)
            /\ Note(call[c].key, FALSE, 0, call[c].op # "get_value" /\ pc'[c] = "done", result'[c])
    /\ UNCHANGED <<overflow_checks, table, call, inc, calls>>

\* The try's insert_conditionally and the rest of the closure.
attempt_insert_answered(c, replies) ==
    /\ pc[c] = "insert"
    /\ \E reply \in replies :
        /\ table' = reply.table
        /\ trace' = [trace EXCEPT ![c] = Append(trace[c], WriteEvent(table, reply))]
        /\ Settle(c, insert_res(reply.res))
        /\ Note(call[c].key, reply.table # table, inc[c], pc'[c] = "done", result'[c])
    /\ UNCHANGED <<overflow_checks, call, inc, calls>>

attempt_insert(c, faults) ==
    attempt_insert_answered(c,
        {increment_insert(table, call[c].key, pending[c].value, pending[c].version)}
            \cup Failed(table, faults))

\* The same step when the store applies the write and the answer is lost.
attempt_insert_reply_lost(c, faults) ==
    attempt_insert_answered(c,
        LostReply(increment_insert(table, call[c].key, pending[c].value, pending[c].version), faults))

Next ==
    \E c \in Callers :
        \/ \E k \in Keys, v \in InitValues : init_counter(c, k, v, FaultKinds)
        \/ \E k \in Keys, d \in Deltas : increment(c, k, d)
        \/ \E k \in Keys, d \in Deltas : decrement(c, k, d)
        \/ \E k \in Keys : get_value(c, k)
        \/ attempt_get(c, FaultKinds)
        \/ attempt_insert(c, FaultKinds)

Spec == Init /\ [][Next]_vars

\* Scenario: one init_counter, then one call of any other kind from each
\* thread, the store free to fail any of its calls.
Fresh(c) == call[c].op \in {"none", "init_counter"}

NextCallEach ==
    \E c \in Callers :
        \/ calls = 0 /\ \E k \in Keys, v \in InitValues : init_counter(c, k, v, FaultKinds)
        \/ calls >= 1 /\ Fresh(c) /\ \E k \in Keys, d \in Deltas : increment(c, k, d)
        \/ calls >= 1 /\ Fresh(c) /\ \E k \in Keys, d \in Deltas : decrement(c, k, d)
        \/ calls >= 1 /\ Fresh(c) /\ \E k \in Keys : get_value(c, k)
        \/ attempt_get(c, FaultKinds)
        \/ attempt_insert(c, FaultKinds)

\* block_on drives a call's future to completion: a call that can take its
\* next step eventually takes it.
FairSpec ==
    /\ Init /\ [][NextCallEach]_vars
    /\ \A c \in Callers : WF_vars(attempt_get(c, FaultKinds) \/ attempt_insert(c, FaultKinds))

\* Scenario: one init_counter, then one increment by 1 from each thread, the
\* two running concurrently against a store that returns no failure other
\* than a version mismatch.
NextTwoIncrements ==
    \E c \in Callers :
        \/ calls = 0 /\ \E k \in Keys, v \in InitValues : init_counter(c, k, v, {})
        \/ \E k \in Keys : table[k] # NoEntry /\ ~IsIncrement(c) /\ increment(c, k, 1)
        \/ attempt_get(c, {})
        \/ attempt_insert(c, {})

SpecTwoIncrements == Init /\ [][NextTwoIncrements]_vars

\* Scenario: as NextCallEach, against a store whose answer to a write it
\* applied may be lost, the client being told of a store error instead.
NextReplyLost ==
    \/ NextCallEach
    \/ \E c \in Callers :
          \/ calls = 0 /\ \E k \in Keys, v \in InitValues : init_counter_reply_lost(c, k, v, FaultKinds)
          \/ attempt_insert_reply_lost(c, FaultKinds)

SpecReplyLost == Init /\ [][NextReplyLost]_vars

\* Scenario: one init_counter, then one increment from each thread, the
\* increments running concurrently against a store that returns no failure
\* other than a version mismatch; block_on drives each call on.
NextContention ==
    \E c \in Callers :
        \/ calls = 0 /\ \E k \in Keys, v \in InitValues : init_counter(c, k, v, {})
        \/ \E k \in Keys, d \in Deltas :
              table[k] # NoEntry /\ ~IsIncrement(c) /\ increment(c, k, d)
        \/ attempt_get(c, {})
        \/ attempt_insert(c, {})

FairContention ==
    /\ Init /\ [][NextContention]_vars
    /\ \A c \in Callers : WF_vars(attempt_get(c, {}) \/ attempt_insert(c, {}))

\* ------------------------------------------------------- reading the state
InFlight(c) == pc[c] \in {"get", "insert"}

Events(c, op) == {i \in DOMAIN trace[c] : trace[c][i].op = op}
Gets(c) == Cardinality(Events(c, "get"))
Inserts(c) == Cardinality(Events(c, "insert"))
Conflicts(c) ==
    Cardinality({i \in Events(c, "insert") : trace[c][i].res = "IncorrectKeyVersion"})
LastEvent(c) == trace[c][Len(trace[c])]

\* The TableError inside the OSError a failed call raised.
Cause(c) == result[c].error.debug

\* Thread c's step commits an increment: its insert_conditionally is applied.
Commits(c) ==
    /\ pc[c] = "insert"
    /\ Len(trace'[c]) = Len(trace[c]) + 1
    /\ trace'[c][Len(trace'[c])].applied

\* No update is lost, up to the width of the integer: the stored value is
\* the last init value plus the deltas of all increments committed since,
\* wrapped to the width.
StoredIsWrappedSum ==
    \A k \in Keys : table[k] # NoEntry => table[k].value = Wrap(hist[k].sum)

\* C1: once every increment on a key has returned, and all of them returned
\* Ok, the stored value is V0 + d1 + ... + dN, V0 the value init_counter wrote
\* and d1..dN the deltas of the increments since.
C1_NoLostUpdates ==
    \A k \in Keys :
        ( /\ table[k] # NoEntry
          /\ hist[k].allok
          /\ \A c \in Callers : ~(InFlight(c) /\ IsIncrement(c) /\ call[c].key = k) )
        => table[k].value = hist[k].sum

\* C2: every commit of an increment sets the stored value to the value the
\* store held immediately before the commit plus the delta.
C2_CommitAddsDelta ==
    [][\A c \in Callers :
          Commits(c) => table'[call[c].key].value = table[call[c].key].value + inc[c]]_vars

\* The same up to the width of the integer: a commit is never computed from
\* a stale read.
CommitAddsDeltaWrapped ==
    [][\A c \in Callers :
          Commits(c) => table'[call[c].key].value = Wrap(table[call[c].key].value + inc[c])]_vars

\* Both increments by 1 of the scenario have returned, after init_counter(k, 10).
TwoIncrementsDone(k) ==
    /\ hist[k].init = 10
    /\ \A c \in Callers :
          /\ pc[c] = "done"
          /\ call[c].op = "increment" /\ call[c].key = k /\ call[c].arg = 1

\* C3 as stated: the final value is 12 and exactly one of the two calls
\* observes a version conflict and retries once.
C3_ExactlyOneConflict ==
    \A k \in Keys :
        TwoIncrementsDone(k) =>
            /\ table[k].value = 12
            /\ Cardinality({c \in Callers : Conflicts(c) = 1 /\ Gets(c) = 2}) = 1

\* C3 amended: both calls return Ok, the final value is 12, at most one of
\* the two calls observes a version conflict, and a call retries exactly as
\* often as it observes a conflict (once or never).
C3_AtMostOneConflict ==
    \A k \in Keys :
        TwoIncrementsDone(k) =>
            /\ \A c \in Callers : result[c] = OkUnit
            /\ table[k].value = 12
            /\ Cardinality({c \in Callers : Conflicts(c) >= 1}) <= 1
            /\ \A c \in Callers : Conflicts(c) <= 1 /\ Gets(c) = Conflicts(c) + 1

\* Both increments returned and one of them met the conflict and retried.
C3_Witness ==
    \E k \in Keys :
        /\ TwoIncrementsDone(k)
        /\ table[k].value = 12
        /\ \E c \in Callers : Conflicts(c) = 1 /\ Gets(c) = 2

\* Thread c's step is a table.get answered with "no such key".
ReadsAbsent(c) ==
    /\ pc[c] = "get"
    /\ Len(trace'[c]) = Len(trace[c]) + 1
    /\ trace'[c][Len(trace'[c])] = Event("get", "OkNone")

FailedKeyDoesNotExist(c) ==
    /\ pc[c] = "done"
    /\ result[c].tag = "Err"
    /\ Cause(c).kind = "KeyDoesNotExist"

\* C4: a get_value whose read finds the key absent fails with
\* KeyDoesNotExist, and that read is the last thing the call does: the key
\* was absent, the call returns in the same step and reads no more.
C4_GetValueAbsentIsTerminal ==
    \A c \in Callers : \A i \in DOMAIN trace[c] :
        (call[c].op = "get_value" /\ trace[c][i] = Event("get", "OkNone")) =>
            /\ i = Len(trace[c])
            /\ FailedKeyDoesNotExist(c)

\* A get_value on a key never initialised failed with KeyDoesNotExist after
\* its one read.
C4_Witness ==
    \E c \in Callers :
        /\ call[c].op = "get_value"
        /\ hist[call[c].key] = NoHistory
        /\ trace[c] = <<Event("get", "OkNone")>>
        /\ FailedKeyDoesNotExist(c)

\* C5: when a read of an increment or decrement finds the key absent, the
\* call returns KeyDoesNotExist in that step: it has issued no write, it
\* issues none and reads no more, and the key is absent when it returns.
C5_IncrementAbsentIsTerminal ==
    [][\A c \in Callers :
          (IsIncrement(c) /\ ReadsAbsent(c)) =>
              /\ pc'[c] = "done"
              /\ result'[c].tag = "Err"
              /\ result'[c].error.debug.kind = "KeyDoesNotExist"
              /\ \A i \in DOMAIN trace'[c] : trace'[c][i].op # "insert"
              /\ table' = table
              /\ table'[call[c].key] = NoEntry]_vars

\* An increment on a missing key has failed with KeyDoesNotExist, the key
\* still absent.
C5_Witness ==
    \E c \in Callers :
        /\ IsIncrement(c)
        /\ FailedKeyDoesNotExist(c)
        /\ LastEvent(c) = Event("get", "OkNone")
        /\ table[call[c].key] = NoEntry

\* Thread c's step is the read of a get_value, answered with the entry.
GetValueReads(c) ==
    /\ pc[c] = "get"
    /\ call[c].op = "get_value"
    /\ Len(trace'[c]) = Len(trace[c]) + 1
    /\ trace'[c][Len(trace'[c])] = Event("get", "OkSome")

\* C6: a get_value that reads the key after an init_counter(key, v), no
\* write to the key in between, returns exactly v; and after every
\* init_counter(key, v) that returns, until the next write to the key, the
\* stored value is v, whatever the key held before.
C6_InitThenGetValue ==
    [][/\ \A c \in Callers :
             (GetValueReads(c) /\ hist[call[c].key].commits = 0) =>
                 (pc'[c] = "done" /\ result'[c] = Ok(hist[call[c].key].init))
       /\ \A k \in Keys :
             (table'[k] # NoEntry /\ hist'[k].commits = 0) =>
                 table'[k].value = hist'[k].init]_vars

\* A get_value returned the value of an init_counter that overwrote an
\* earlier entry of the key.
C6_Witness ==
    \E c \in Callers :
        /\ pc[c] = "done"
        /\ call[c].op = "get_value"
        /\ hist[call[c].key].commits = 0
        /\ table[call[c].key] # NoEntry
        /\ table[call[c].key].version >= 1
        /\ result[c] = Ok(hist[call[c].key].init)

\* C7: decrement(key, d) is increment(key, -d): the call hands
\* impl_increment_async the increment_value -d, for every d of the width.
C7_DecrementIsIncrementOfNegation ==
    \A c \in Callers : call[c].op = "decrement" => inc[c] = 0 - call[c].arg

\* The same for every d but the minimum, whose negation is out of range.
DecrementNegatesAboveMin ==
    \A c \in Callers :
        (call[c].op = "decrement" /\ call[c].arg # MinInt) =>
            /\ inc[c] = 0 - call[c].arg
            /\ ~(pc[c] = "done" /\ trace[c] = <<>>)

\* What the store has answered to the current call of thread c.
AllGetsSome(c) == \A i \in Events(c, "get") : trace[c][i].res = "OkSome"
EndsWithInsert(c) == Len(trace[c]) >= 1 /\ LastEvent(c).op = "insert"

\* Every conditional write of c's increment but the last was answered with
\* a version mismatch, and the last was accepted.
MismatchesThenAccept(c) ==
    /\ IsIncrement(c) /\ AllGetsSome(c) /\ EndsWithInsert(c)
    /\ \A i \in Events(c, "insert") :
          trace[c][i].res = (IF i = Len(trace[c]) THEN "Ok" ELSE "IncorrectKeyVersion")

\* Every conditional write of c's increment so far was answered with a
\* version mismatch.
OnlyMismatches(c) ==
    /\ IsIncrement(c) /\ AllGetsSome(c) /\ EndsWithInsert(c)
    /\ \A i \in Events(c, "insert") : trace[c][i].res = "IncorrectKeyVersion"

\* C8: an increment whose first K conditional writes met a version mismatch,
\* K below the attempt ceiling, goes on to another cycle; when the store
\* accepts the next write the call returns Ok, having made exactly K+1 reads
\* and K+1 conditional writes.
C8_RetriesUntilAccepted ==
    \A c \in Callers :
        /\ (OnlyMismatches(c) /\ Conflicts(c) < MaxAttempts) =>
              (pc[c] = "get" /\ attempt[c] = Conflicts(c) + 1)
        /\ MismatchesThenAccept(c) =>
              /\ pc[c] = "done" /\ result[c] = OkUnit
              /\ Conflicts(c) < MaxAttempts
              /\ Gets(c) = Conflicts(c) + 1
              /\ Inserts(c) = Conflicts(c) + 1

\* An increment succeeded on its second cycle, after one version mismatch.
C8_Witness ==
    \E c \in Callers :
        /\ MismatchesThenAccept(c)
        /\ Conflicts(c) = 1
        /\ Gets(c) = 2 /\ Inserts(c) = 2
        /\ result[c] = OkUnit

\* Every conditional write of c's increment so far failed, with a version
\* mismatch or a store error.
OnlyFailedInserts(c) ==
    /\ IsIncrement(c) /\ AllGetsSome(c) /\ EndsWithInsert(c)
    /\ \A i \in Events(c, "insert") : trace[c][i].res # "Ok"

Failures(c) ==
    IF call[c].op = "init_counter" THEN 0
    ELSE Cardinality({i \in DOMAIN trace[c] : trace[c][i].res \notin {"OkSome", "OkNone", "Ok"}})

Applied(c) == Cardinality({i \in DOMAIN trace[c] : trace[c][i].applied})

\* Thread c's increment or decrement has returned an error.
IncrementFailed(c) == IsIncrement(c) /\ pc[c] = "done" /\ result[c].tag = "Err"

\* C11: when an increment or decrement returns an error, no write of that
\* call has changed the value and version stored for the key.
C11_FailedIncrementWritesNothing ==
    \A c \in Callers : IncrementFailed(c) => Applied(c) = 0

\* The failures the closures classify as Retry.
Transient == {"IncorrectKeyVersion"} \cup FaultKinds

\* An attempt of c's current call succeeded: the read of a get_value found
\* the entry, or the conditional write of an increment was accepted.
AttemptSucceeded(c) ==
    \E i \in DOMAIN trace[c] :
        trace[c][i] = (IF call[c].op = "get_value" THEN Event("get", "OkSome") ELSE Event("insert", "Ok"))

\* C12: a get_value or increment returns a transient failure only after its
\* last permitted attempt, every attempt having failed; while it retries it
\* has returned nothing; and it returns Ok if any attempt succeeds.
C12_TransientsSurfaceOnlyAtExhaustion ==
    \A c \in Callers :
        call[c].op \in {"get_value", "increment", "decrement"} =>
            /\ (pc[c] = "done" /\ result[c].tag = "Err" /\ Cause(c).kind \in Transient) =>
                  /\ attempt[c] = MaxAttempts
                  /\ Failures(c) = MaxAttempts
                  /\ Cause(c) = TableError(LastEvent(c).res)
            /\ InFlight(c) => result[c] = NoResult
            /\ AttemptSucceeded(c) => (pc[c] = "done" /\ result[c].tag = "Ok")

\* A get_value returned the value and an increment returned Ok, each after a
\* first attempt that met a transient failure.
C12_Witness ==
    \E c, d \in Callers :
        /\ call[c].op = "get_value" /\ IsIncrement(d)
        /\ pc[c] = "done" /\ pc[d] = "done"
        /\ Failures(c) >= 1 /\ Failures(d) >= 1
        /\ result[c].tag = "Ok" /\ result[d] = OkUnit

\* C13: every call that returns reports Ok or an explicit error, and an
\* init_counter whose write the store failed returns an error.
C13_FailuresAreTypedErrors ==
    \A c \in Callers :
        pc[c] = "done" =>
            /\ result[c].tag \in {"Ok", "Err"}
            /\ (call[c].op = "init_counter" /\ trace[c][1].res # "Ok") => result[c].tag = "Err"

\* The same for the failures the pymethods do turn into errors: a get_value
\* or increment that does not unwind from an overflow returns Ok or an
\* OSError carrying the TableError.
FailuresOfRetriedCallsAreTyped ==
    \A c \in Callers :
        (pc[c] = "done" /\ call[c].op # "init_counter" /\ result[c].tag # "Panic") =>
            \/ result[c].tag = "Ok"
            \/ result[c].tag = "Err" /\ result[c].error.exc = "OSError"

\* C14: the KeyDoesNotExist error of a call carries the key of the call and
\* the operation attempted: it names the get operation exactly when the call
\* is a get_value.
C14_ErrorNamesKeyAndOperation ==
    \A c \in Callers :
        FailedKeyDoesNotExist(c) =>
            /\ Cause(c).operation[2] = call[c].key
            /\ Cause(c).error_msg = does_not_exist(call[c].key)
            /\ (Cause(c).operation[1] = "Get value for key") <=> (call[c].op = "get_value")

\* The part about the key: the error carries the key of the call, in its
\* operation and in its message.
ErrorNamesKey ==
    \A c \in Callers :
        FailedKeyDoesNotExist(c) =>
            /\ Cause(c).operation[2] = call[c].key
            /\ Cause(c).error_msg = does_not_exist(call[c].key)

\* Thread c's step is the read of an increment, answered with the entry.
IncrementReads(c) ==
    /\ pc[c] = "get"
    /\ IsIncrement(c)
    /\ Len(trace'[c]) = Len(trace[c]) + 1
    /\ trace'[c][Len(trace'[c])] = Event("get", "OkSome")

\* Every conditional write of an increment comes right after a read of the
\* same call that found the entry.
WriteFollowsRead ==
    \A c \in Callers :
        IsIncrement(c) =>
            \A i \in Events(c, "insert") : i > 1 /\ trace[c][i - 1] = Event("get", "OkSome")

\* The steps of an attempt: the conditional write a read leads to carries
\* the version just read and the value just read plus delta (wrapped to the
\* width if wrapped is set, the mathematical sum if not); a write that is
\* applied stores exactly what the attempt's read prepared, on the version it
\* read; after a write that is retried nothing of the attempt is kept.
AttemptSteps(wrapped) ==
    \A c \in Callers :
        LET k == call[c].key
            sum(value, delta) == IF wrapped THEN Wrap(value + delta) ELSE value + delta
        IN  /\ (IncrementReads(c) /\ pc'[c] = "insert") =>
                  pending'[c] = [value |-> sum(table[k].value, inc[c]), version |-> table[k].version]
            /\ (pc[c] = "insert" /\ Len(trace'[c]) > Len(trace[c]) /\ table' # table) =>
                  /\ table[k].version = pending[c].version
                  /\ table'[k].value = pending[c].value
            /\ (pc[c] = "insert" /\ pc'[c] = "get") =>
                  /\ pending'[c] = NoPending
                  /\ attempt'[c] = attempt[c] + 1

\* C15: in every attempt of an increment the conditional write follows the
\* attempt's read and carries the version that read returned and the value
\* it returned plus delta; after a failed write the next attempt reads
\* afresh, and nothing read earlier is reused.
C15_ReadComputeWrite == []WriteFollowsRead /\ [][AttemptSteps(FALSE)]_vars

\* The same up to the width of the integer: the order of the steps and the
\* freshness of value and version hold in every attempt.
ReadComputeWriteWrapped == []WriteFollowsRead /\ [][AttemptSteps(TRUE)]_vars

\* C16: an init_counter makes exactly one store call, a write with no read
\* before it; the store answers Ok or a store error, never a version
\* conflict or a missing key; an accepted write is applied and the call
\* returns Ok; a failed write is the call's last store call.
C16_InitCounterIsOneUnconditionalWrite ==
    \A c \in Callers :
        call[c].op = "init_counter" =>
            /\ pc[c] = "done"
            /\ Len(trace[c]) = 1
            /\ trace[c][1].op = "insert"
            /\ trace[c][1].res \in {"Ok"} \cup FaultKinds
            /\ trace[c][1].res = "Ok" => (trace[c][1].applied /\ result[c] = OkUnit)
            /\ pending[c] = NoPending

\* An init_counter overwrote a key that had been written before, and
\* another one ended at the failure of its write.
C16_Witness ==
    \E c, d \in Callers :
        /\ call[c].op = "init_counter" /\ call[d].op = "init_counter"
        /\ trace[c] = <<Event("insert", "Ok")>>
        /\ table[call[c].key].version >= 1
        /\ trace[d][1].res \in FaultKinds /\ Len(trace[d]) = 1

\* C17: an increment that returns Ok has had exactly one conditional write
\* applied by the store over all its attempts.
C17_SuccessCommitsOnce ==
    \A c \in Callers :
        (IsIncrement(c) /\ pc[c] = "done" /\ result[c] = OkUnit) => Applied(c) = 1

\* Thread c's step is a conditional write the store rejects with a version
\* mismatch.
Rejected(c) ==
    /\ pc[c] = "insert"
    /\ Len(trace'[c]) = Len(trace[c]) + 1
    /\ trace'[c][Len(trace'[c])] = Event("insert", "IncorrectKeyVersion")

\* A write is rejected only if the key's version has moved on since the
\* attempt's read: a write to the key was committed in between.
RejectedOnlyAfterCommit ==
    \A c \in Callers : Rejected(c) => table[call[c].key].version > pending[c].version

\* The same with init_counter among the concurrent writers and a store that
\* may fail.
RejectedOnlyAfterWrite == [][RejectedOnlyAfterCommit]_vars

\* An increment unwinds only from a sum outside the range, in a build with
\* overflow checks.
UnwindsOnlyOnOverflow ==
    \A c \in Callers :
        (IncrementReads(c) /\ pc'[c] = "done") =>
            /\ ~InRange(table[call[c].key].value + inc[c])
            /\ overflow_checks
            /\ result'[c] = Panicked("attempt to add with overflow")

GetValueWritesNothing ==
    \A c \in Callers :
        call[c].op = "get_value" =>
            \A i \in DOMAIN trace[c] : trace[c][i].op = "get" /\ ~trace[c][i].applied

\* A get_value that has returned a value returned it from its last read,
\* the only one that found the entry.
ReturnsFromLastRead ==
    \A c \in Callers :
        (call[c].op = "get_value" /\ pc[c] = "done" /\ result[c].tag = "Ok") =>
            /\ LastEvent(c) = Event("get", "OkSome")
            /\ \A i \in DOMAIN trace[c] : trace[c][i].res = "OkSome" => i = Len(trace[c])

\* C19: a get_value returns the value the store holds for the key at the
\* instant of the read that ends the call, between its invocation and its
\* return, whatever other threads have written before and write after; no
\* step of a get_value changes the store.
C19_GetValueIsLinearizableRead ==
    /\ [](GetValueWritesNothing /\ ReturnsFromLastRead)
    /\ [][\A c \in Callers :
            /\ GetValueReads(c) =>
                  /\ pc'[c] = "done"
                  /\ result'[c] = Ok(table[call[c].key].value)
            /\ (pc[c] = "get" /\ call[c].op = "get_value" /\ trace'[c] # trace[c]) =>
                  table' = table]_vars

\* A get_value returned, on its second read, the value an increment had
\* committed.
C19_Witness ==
    \E c, d \in Callers :
        /\ call[c].op = "get_value" /\ pc[c] = "done" /\ Gets(c) = 2
        /\ IsIncrement(d) /\ Applied(d) = 1
        /\ result[c].tag = "Ok"
        /\ result[c].val # hist[call[c].key].init
        /\ result[c].val = table[call[c].key].value

\* An attempt whose sum is outside the range goes on to no conditional
\* write, and every commit stores the mathematical sum of the value it
\* replaces and the delta.
SumInRangeOrNoWrite ==
    \A c \in Callers :
        LET k == call[c].key
        IN  /\ (IncrementReads(c) /\ ~InRange(table[k].value + inc[c])) => pc'[c] # "insert"
            /\ Commits(c) =>
                  /\ table'[k].value = table[k].value + inc[c]
                  /\ InRange(table'[k].value)

\* A decrement whose negated delta is outside the range makes no store call.
NegationInRangeOrNoCall ==
    \A c \in Callers :
        (call[c].op = "decrement" /\ ~InRange(0 - call[c].arg)) =>
            (pc[c] = "done" /\ trace[c] = <<>>)

\* C20: every value an increment commits is the mathematical sum value +
\* delta, within the range; when the sum, or the negation of the delta of a
\* decrement, is outside the range, nothing wrapped around is written.
C20_NoWrappedValueWritten == []NegationInRangeOrNoCall /\ [][SumInRangeOrNoWrite]_vars

\* The same in a build with overflow checks, where the overflow unwinds.
NoWrappedValueWithOverflowChecks ==
    /\ [](overflow_checks => NegationInRangeOrNoCall)
    /\ [][overflow_checks => SumInRangeOrNoWrite]_vars

====
